---- MODULE Spec2Model ----
(***************************************************************************)
(* Model of src/py_journal.cc: the indexed accessors xacts_getitem and     *)
(* accounts_getitem with their function-static iterator caches, and the    *)
(* query collection py_collect with the collector_wrapper it returns.      *)
(***************************************************************************)
EXTENDS Integers, Sequences, FiniteSets, TLC

\* ---------------------------------------------------------------- bounds
\* Longest container (journal.xacts, account.accounts) the model builds.
MaxLen == 2
\* The width of a long in the model (64 in the builds): what matters is that
\* the type has a least value whose negation it cannot hold.
LongBits == 16

\* ------------------------------------------------------------- vocabulary
NULL       == "NULL"
\* Values that stand beside the elements <<owner, k>> are pairs as well.
NoValue    == <<"none", 0>>        \* nothing returned yet
EndNode(c) == <<c, 0>>             \* the past-the-end position of container c
Singular   == <<"singular", 0>>    \* an iterator with no node: default-
                                   \* constructed, or its node was erased
Wild       == <<"wild", 0>>        \* an iterator stepped out of a freed node
Garbage    == <<"garbage", 0>>     \* what reading through end() yields
Fault      == <<"fault", 0>>       \* the read faults: the process ends
Hang       == <<"hang", 0>>        \* the call does not return
IndexError == <<"IndexError", 0>>  \* PyExc_IndexError, "Index out of range"

Journals == {"J1", "J2"}
Accounts == {"A1", "A2"}
\* The collector_wrapper objects that can exist at one time.
CollIds  == {"c1", "c2"}

\* PyExc_RuntimeError, "Cannot have multiple journal collections open at once"
ConcurrentCollectionError == "RuntimeError"

\* long: two's complement, LongBits wide.
LONG_MIN == -(2^(LongBits - 1))
LONG_MAX == 2^(LongBits - 1) - 1
Wrap(n)  == ((n - LONG_MIN) % (2^LongBits)) + LONG_MIN

\* Index arguments handed to the accessors: every in-range index of the
\* longest container, both signs, one past it on either side, and the least
\* long.
Indices == ((-(MaxLen + 1)) .. (MaxLen + 1)) \cup {LONG_MIN}

Range(s) == {s[p] : p \in 1..Len(s)}

\* The transactions that exist for the runs that add and remove them: four,
\* so that a call at index 1 can be followed, after a removal, by a call at
\* index 2 that is still in range; more when the containers are longer.
XactsMax == IF MaxLen + 1 > 4 THEN MaxLen + 1 ELSE 4

\* The container of owner c holding n elements: element k of owner c is <<c, k>>.
Filled(c, n) == [k \in 1..n |-> <<c, k>>]

VARIABLES
  xacts,      \* journal.xacts of every journal: a list of transactions
  accounts,   \* account.accounts of every account: its children in map order
  xcache,     \* the statics of xacts_getitem: last_index, last_journal, elem
  acache,     \* the statics of accounts_getitem: last_index, last_account, elem
  g,          \* the last accessor call: its arguments, path and return value
  slot,       \* current_report.session.journal, the active-ledger slot
  xdata,      \* the transient annotations of every journal
  colls,      \* every collector_wrapper: its state, journal and collected posts
  pc,         \* where the py_collect call in progress stands ("idle": none)
  cur,        \* the locals of the py_collect call in progress
  last,       \* the last operation of the collection interface and its outcome
  deleted     \* the journals whose owner has deleted them

getvars     == <<xacts, accounts, xcache, acache, g>>
collectvars == <<slot, xdata, colls, pc, cur, last, deleted>>
vars        == <<xacts, accounts, xcache, acache, g, slot, xdata, colls, pc, cur, last,
                 deleted>>

\* ------------------------------------------------------------- iterators
\* An iterator is the node it designates: an element <<c, k>> of a container,
\* the past-the-end position of a container, Singular or Wild.  conts is the
\* family of containers of one type (xacts or accounts): an iterator that has
\* lost its node can come to designate a node of any of them, because the
\* address of a freed node is handed to the next node allocated.

\* labs on a long: the negation of LONG_MIN overflows and yields LONG_MIN.
labs(i) == Wrap(IF i < 0 THEN -i ELSE i)

begin(conts, c) == IF Len(conts[c]) = 0 THEN EndNode(c) ELSE conts[c][1]

IndexOf(seq, n) == CHOOSE p \in 1..Len(seq) : seq[p] = n

\* Every position of every container of the family.
Nodes(conts) == UNION {Range(conts[c]) \cup {EndNode(c)} : c \in DOMAIN conts}

\* ++it.  From an element: the next element of its container, or the end of
\* that container.  Incrementing an iterator that designates no element is
\* undefined.  From end() the links of the container's header are followed:
\* a position of that container, and on a container left empty the search
\* for the leftmost node of a std::map does not end (Hang).  From an iterator
\* whose node was erased, or a wild one, the link found at that address is
\* followed: any position of any container, one that is none (Wild), a
\* fault on reading the link, or a chain of links that does not end.
Incr(conts, n) ==
  IF n[1] \in DOMAIN conts /\ n \in Range(conts[n[1]])
    THEN LET seq == conts[n[1]]
         IN {IF IndexOf(seq, n) < Len(seq) THEN seq[IndexOf(seq, n) + 1]
                                           ELSE EndNode(n[1])}
  ELSE IF n[1] \in DOMAIN conts /\ n = EndNode(n[1])
    THEN IF conts[n[1]] = <<>> THEN {n, Hang} ELSE Range(conts[n[1]]) \cup {n}
    ELSE Nodes(conts) \cup {Wild, Fault, Hang}

\* *it.  Reading through an iterator that designates no element is
\* undefined: through end() the bytes found there, or any element of that
\* container; through an iterator whose node was erased, or a wild one, the
\* bytes found there (the iterator stays as it is), an element of any
\* container, or a fault.
Deref(conts, n) ==
  IF n[1] \in DOMAIN conts /\ n \in Range(conts[n[1]]) THEN {n}
  ELSE IF n[1] \in DOMAIN conts /\ n = EndNode(n[1])
    THEN Range(conts[n[1]]) \cup {Garbage}
    ELSE (Nodes(conts) \ {EndNode(c) : c \in DOMAIN conts}) \cup {Garbage, Fault}

\* while (--x >= 0) elem++;
RECURSIVE Advance(_, _, _)
Advance(conts, ns, x) ==
  IF x - 1 >= 0
    THEN Advance(conts,
                 UNION {IF n \in {Fault, Hang} THEN {n} ELSE Incr(conts, n)
                        : n \in ns},
                 x - 1)
    ELSE ns

\* ------------------------------------------------------------- accessors
\* Each accessor yields the set of outcomes a call can have: the statics
\* after the call, the value returned (or the error raised) and the path.
\* With i = LONG_MIN on an empty container, --x overflows (undefined): x
\* wraps to LONG_MAX and the loop does not come to an end (Hang).

\* The position of seq that index i resolves to, counted from 0.
Resolve(seq, i) == IF i < 0 THEN Len(seq) + i ELSE i

\* The statics designate the element of seq that last_index resolves to.
CacheSound(cache, seq) ==
  /\ Resolve(seq, cache.last_index) \in 0..(Len(seq) - 1)
  /\ cache.elem = seq[Resolve(seq, cache.last_index) + 1]

\* return **elem, the iterator having come to n: the value read through it.
\* An increment that faulted or does not end never reaches the read.
Returned(conts, cache, n, path) ==
  IF n \in {Fault, Hang}
    THEN {[cache |-> cache, ret |-> n, path |-> path]}
    ELSE {[cache |-> [cache EXCEPT !.elem = n], ret |-> r, path |-> path]
          : r \in Deref(conts, n)}

\* xacts_getitem with a cache that is checked against the list before use.
xacts_getitem_Revalidated(journal, i) ==
  LET seq == xacts[journal]
      len == Len(seq)
  IN IF labs(i) >= len
       THEN {[cache |-> xcache, ret |-> IndexError, path |-> "error"]}
     ELSE IF journal = xcache.last_journal /\ i = Wrap(xcache.last_index + 1)
             /\ CacheSound(xcache, seq)
       THEN UNION {Returned(xacts, [xcache EXCEPT !.last_index = i], n, "fast")
                   : n \in Incr(xacts, xcache.elem)}
     ELSE LET x == IF i < 0 THEN len + i ELSE i
          IN IF x - 1 < LONG_MIN
               THEN {[cache |-> [xcache EXCEPT !.elem = begin(xacts, journal)],
                      ret |-> Hang, path |-> "hang"]}
               ELSE UNION {Returned(xacts,
                                    [xcache EXCEPT !.last_index = i,
                                                   !.last_journal = journal],
                                    n, "walk")
                           : n \in Advance(xacts, {begin(xacts, journal)}, x)}

xacts_getitem(journal, i) ==
  LET seq == xacts[journal]
      len == Len(seq)
  IN IF labs(i) >= len
       THEN {[cache |-> xcache, ret |-> IndexError, path |-> "error"]}
     ELSE IF journal = xcache.last_journal /\ i = Wrap(xcache.last_index + 1)
       THEN UNION {Returned(xacts, [xcache EXCEPT !.last_index = i], n, "fast")
                   : n \in Incr(xacts, xcache.elem)}
     ELSE LET x == IF i < 0 THEN len + i ELSE i
          IN IF x - 1 < LONG_MIN
               THEN {[cache |-> [xcache EXCEPT !.elem = begin(xacts, journal)],
                      ret |-> Hang, path |-> "hang"]}
               ELSE UNION {Returned(xacts,
                                    [xcache EXCEPT !.last_index = i,
                                                   !.last_journal = journal],
                                    n, "walk")
                           : n \in Advance(xacts, {begin(xacts, journal)}, x)}

accounts_getitem(account, i) ==
  LET seq == accounts[account]
      len == Len(seq)
  IN IF labs(i) >= len
       THEN {[cache |-> acache, ret |-> IndexError, path |-> "error"]}
     ELSE IF account = acache.last_account /\ i = Wrap(acache.last_index + 1)
       THEN UNION {Returned(accounts, [acache EXCEPT !.last_index = i], n, "fast")
                   : n \in Incr(accounts, acache.elem)}
     ELSE LET x == IF i < 0 THEN len + i ELSE i
          IN IF x - 1 < LONG_MIN
               THEN {[cache |-> [acache EXCEPT !.elem = begin(accounts, account)],
                      ret |-> Hang, path |-> "hang"]}
               ELSE UNION {Returned(accounts,
                                    [acache EXCEPT !.last_index = i,
                                                   !.last_account = account],
                                    n, "walk")
                           : n \in Advance(accounts, {begin(accounts, account)}, x)}

\* ------------------------------------------------------------------ Init
\* ------------------------------------------------------------- collection
\* The postings of transaction <<journal, k>>: the first transaction of a
\* journal carries two postings, every later one carries one.
PostCount(k) == IF k = 1 THEN 2 ELSE 1

PostsOfXact(x) == [p \in 1..PostCount(x[2]) |-> <<x[1], x[2], p>>]

\* journal_posts_iterator: the postings of every transaction, transactions
\* in list order and postings in order within each.
RECURSIVE FlattenPosts(_)
FlattenPosts(xs) ==
  IF xs = <<>> THEN <<>> ELSE PostsOfXact(Head(xs)) \o FlattenPosts(Tail(xs))

journal_posts(journal) == FlattenPosts(xacts[journal])

\* journal_t::has_xdata: some item of the journal carries an annotation.
has_xdata(journal) == xdata[journal] # {}

\* journal_t::clear_xdata: drop every annotation of the journal.
clear_xdata(xd, journal) == [xd EXCEPT ![journal] = {}]

\* unique_ptr::reset: the object the pointer held before, if any, is deleted.
\* (release hands the object on and leaves the pointer empty: no deletion.)
reset(held, dead) == IF held = NULL THEN dead ELSE dead \cup {held}

\* posts: collect_posts::posts; pushed: how many postings the handler chain
\* handed to the collector; direct: the chain held no posting back, it handed
\* on or dropped each posting as the walker pushed it.
NoColl == [state |-> "free", journal |-> NULL, posts |-> <<>>, pushed |-> 0,
           direct |-> TRUE]

\* pos: how many postings the walker has pushed; held: the postings the
\* handlers of the chain hold back; restored: how often this call has put
\* the saved journal back.
NoCall == [journal |-> NULL, coll |-> NULL, save_journal |-> NULL, pos |-> 0,
           held |-> {}, fail |-> "none", restored |-> 0]

\* The record of an operation: op, its journal j, collector c and index i,
\* how it ended (exit) and what it returned (ret); and what held as it began:
\* live (a collector of j returned and not destroyed), pending (has_xdata(j)),
\* entry_slot (the slot), prev (what the operation before it did to j).
NoOp == [op |-> "none", j |-> NULL, c |-> NULL, i |-> 0, exit |-> "none",
         ret |-> <<"none", 0, 0>>, live |-> FALSE, pending |-> FALSE,
         entry_slot |-> NULL, prev |-> "other"]

\* What the last operation did to the journal, seen from a collect on it.
PrevOn(journal) ==
  IF last.j = journal /\ last.op = "destroy" /\ last.pending THEN "destroyed"
  ELSE IF last.j = journal /\ last.op = "collect" /\ last.exit \in {"compile", "walk"}
    THEN "failed"
  ELSE "other"

LiveOn(journal) ==
  {c \in CollIds : colls[c].state = "live" /\ colls[c].journal = journal}

\* The record of the last accessor call, kept until a list changes: fn, its
\* container c and index i; adj (the call named the cached container and
\* last_index + 1); path and ret; ub (the call incremented or read through an
\* iterator that designates no element); run (how many calls get(c,0),
\* get(c,1), ... in a row this one completes); mut (how the lists were
\* changed between the call before and this one).  dirty: how the lists
\* were changed since the last call.
NoGet == [fn |-> "none", c |-> NULL, i |-> 0, adj |-> FALSE,
          path |-> "none", ret |-> NoValue, ub |-> FALSE, run |-> 0,
          mut |-> "none", dirty |-> "none"]

\* The length of the run of ascending calls from index 0 that a call of fn
\* on container c (of length len) with index i completes.
RunAfter(fn, c, len, i) ==
  IF i < 0 \/ i >= len THEN 0
  ELSE IF i = 0 THEN 1
  ELSE IF g.run >= 1 /\ g.fn = fn /\ g.c = c /\ i = g.i + 1 THEN g.run + 1
  ELSE 0

\* The call stepped or read through an iterator that designates no element.
Undefined(seq, before, o) ==
  \/ o.path = "fast" /\ before \notin Range(seq)
  \/ o.path # "error" /\ o.cache.elem \notin Range(seq)

InitGet ==
  /\ \E n1 \in 0..MaxLen, n2 \in 0..MaxLen :
       xacts = [j \in Journals |-> Filled(j, IF j = "J1" THEN n1 ELSE n2)]
  /\ \E n1 \in 0..MaxLen, n2 \in 0..MaxLen :
       accounts = [a \in Accounts |-> Filled(a, IF a = "A1" THEN n1 ELSE n2)]
  /\ xcache = [last_index |-> 0, last_journal |-> NULL, elem |-> Singular]
  /\ acache = [last_index |-> 0, last_account |-> NULL, elem |-> Singular]
  /\ g = NoGet

\* --------------------------------------------------------------- actions
\* A call of xacts_getitem(journal, i).  (The binding of the function as
\* Journal.__getitem__ stands between #if 0 and #endif: the steps are calls
\* of the function, not of a method of the Python class.)  A read that
\* faults ends the process; a call that hangs holds it for ever.
XactsGetitem ==
  \E journal \in Journals, i \in Indices :
    \E o \in xacts_getitem(journal, i) :
      /\ pc = "idle"
      /\ xcache' = o.cache
      /\ g' = [fn |-> "xacts", c |-> journal, i |-> i,
               adj |-> (journal = xcache.last_journal
                        /\ i = Wrap(xcache.last_index + 1)),
               path |-> o.path, ret |-> o.ret,
               ub |-> Undefined(xacts[journal], xcache.elem, o),
               run |-> RunAfter("xacts", journal, Len(xacts[journal]), i),
               mut |-> g.dirty, dirty |-> "none"]
      /\ pc' = IF o.ret = Fault THEN "crashed"
               ELSE IF o.ret = Hang THEN "hung" ELSE "idle"
      /\ UNCHANGED <<xacts, accounts, acache>>
      /\ UNCHANGED <<slot, xdata, colls, cur, last, deleted>>

\* A call of accounts_getitem(account, i); the function is bound to no
\* method.  A read that faults ends the process.
AccountsGetitem ==
  \E account \in Accounts, i \in Indices :
    \E o \in accounts_getitem(account, i) :
      /\ pc = "idle"
      /\ acache' = o.cache
      /\ g' = [fn |-> "accounts", c |-> account, i |-> i,
               adj |-> (account = acache.last_account
                        /\ i = Wrap(acache.last_index + 1)),
               path |-> o.path, ret |-> o.ret,
               ub |-> Undefined(accounts[account], acache.elem, o),
               run |-> RunAfter("accounts", account, Len(accounts[account]), i),
               mut |-> "none", dirty |-> g.dirty]
      /\ pc' = IF o.ret = Fault THEN "crashed"
               ELSE IF o.ret = Hang THEN "hung" ELSE "idle"
      /\ UNCHANGED <<xacts, accounts, xcache>>
      /\ UNCHANGED <<slot, xdata, colls, cur, last, deleted>>

\* The transactions that exist for a journal, in or out of its list: XactsMax
\* for J1 and one for J2.
XactPool(journal) ==
  Range(Filled(journal, IF journal = "J1" THEN XactsMax ELSE 1))

\* The accounts that exist as children of an account, in or out of its map:
\* MaxLen for A1 and one for A2.
AccountPool(account) ==
  Range(Filled(account, IF account = "A1" THEN MaxLen ELSE 1))

\* The list without its element at position p.
Erase(seq, p) == [k \in 1..(Len(seq) - 1) |-> IF k < p THEN seq[k] ELSE seq[k + 1]]

\* The changes since the last call, after one at position p of the list of
\* journal: "before" if it is the only one, the statics designate the element
\* at last_index >= 0 of that list and p lies in front of it; "other" if not.
Mutated(journal, p) ==
  IF /\ g.dirty = "none"
     /\ journal = xcache.last_journal
     /\ xcache.last_index >= 0
     /\ CacheSound(xcache, xacts[journal])
     /\ p < IndexOf(xacts[journal], xcache.elem)
    THEN "before"
    ELSE "other"

\* Journal.remove_xact: the transaction leaves the list.  Erasing a list
\* node invalidates the iterators that designate it, and no others.
RemoveXact ==
  \E journal \in Journals :
    \E p \in 1..Len(xacts[journal]) :
      /\ pc = "idle"
      /\ xacts' = [xacts EXCEPT ![journal] = Erase(@, p)]
      /\ xcache' = IF xcache.elem = xacts[journal][p]
                     THEN [xcache EXCEPT !.elem = Singular]
                     ELSE xcache
      /\ g' = [NoGet EXCEPT !.dirty = Mutated(journal, p)]
      /\ UNCHANGED <<accounts, acache>>
      /\ UNCHANGED collectvars

\* Journal.add_xact: a transaction that is in no list joins the end of the
\* list of its journal.
AddXact ==
  \E journal \in Journals :
    \E x \in XactPool(journal) \ Range(xacts[journal]) :
      /\ pc = "idle"
      /\ xacts' = [xacts EXCEPT ![journal] = Append(@, x)]
      /\ g' = [NoGet EXCEPT !.dirty = Mutated(journal, Len(xacts[journal]) + 1)]
      /\ UNCHANGED <<accounts, xcache, acache>>
      /\ UNCHANGED collectvars

\* accounts_map is a std::map keyed by name: a new child takes its place in
\* key order (child <<a, k>> has the k-th name).
InsertChild(seq, x) ==
  LET n == Cardinality({k \in 1..Len(seq) : seq[k][2] < x[2]})
  IN [k \in 1..(Len(seq) + 1) |->
        IF k <= n THEN seq[k] ELSE IF k = n + 1 THEN x ELSE seq[k - 1]]

\* The lowest-numbered element of a set of elements of one owner.
First(S) == CHOOSE x \in S : \A y \in S : x[2] <= y[2]

RECURSIVE InsertAll(_, _)
InsertAll(seq, S) ==
  IF S = {} THEN seq ELSE InsertAll(InsertChild(seq, First(S)), S \ {First(S)})

RECURSIVE AppendAll(_, _)
AppendAll(seq, S) ==
  IF S = {} THEN seq ELSE AppendAll(Append(seq, First(S)), S \ {First(S)})

\* Journal.remove_account: a child leaves the map of the master account
\* (A1).  Erasing a map node invalidates the iterators that designate it,
\* and no others.
RemoveAccount ==
  \E p \in 1..Len(accounts["A1"]) :
    /\ pc = "idle"
    /\ accounts' = [accounts EXCEPT !["A1"] = Erase(@, p)]
    /\ acache' = IF acache.elem = accounts["A1"][p]
                   THEN [acache EXCEPT !.elem = Singular]
                   ELSE acache
    /\ g' = [NoGet EXCEPT !.dirty = "other"]
    /\ UNCHANGED <<xacts, xcache>>
    /\ UNCHANGED collectvars

\* Journal.add_account, and Journal.find_account creating the account it
\* does not find: an account that is in no map becomes a child.
AddAccount ==
  \E account \in Accounts :
    \E x \in AccountPool(account) \ Range(accounts[account]) :
      /\ pc = "idle"
      /\ accounts' = [accounts EXCEPT ![account] = InsertChild(@, x)]
      /\ g' = [NoGet EXCEPT !.dirty = "other"]
      /\ UNCHANGED <<xacts, xcache, acache>>
      /\ UNCHANGED collectvars

\* Journal.read (py_read): the file is parsed into the journal; its
\* transactions join the end of the list and the accounts they name that
\* are in no map are created.
Read ==
  \E journal \in Journals :
    \E S \in SUBSET (XactPool(journal) \ Range(xacts[journal])) :
      \E T \in SUBSET UNION {AccountPool(a) \ Range(accounts[a]) : a \in Accounts} :
        /\ pc = "idle"
        /\ xacts' = [xacts EXCEPT ![journal] = AppendAll(@, S)]
        /\ accounts' = [a \in Accounts |->
                          InsertAll(accounts[a], T \cap AccountPool(a))]
        /\ g' = IF S = {} /\ T = {} THEN g ELSE [NoGet EXCEPT !.dirty = "other"]
        /\ UNCHANGED <<xcache, acache>>
        /\ UNCHANGED collectvars

\* A destructor that frees the collector and leaves the annotations.
Destructor_NoClear(c) ==
  /\ xdata' = xdata
  /\ colls' = [colls EXCEPT ![c] = NoColl]

\* collector_wrapper::~collector_wrapper: journal.clear_xdata().
Destructor(c) ==
  /\ xdata' = clear_xdata(xdata, colls[c].journal)
  /\ colls' = [colls EXCEPT ![c] = NoColl]

\* posts_getitem: collector.posts_collector->posts[i], a std::vector
\* subscript.  Outside [0, size) the read is undefined: the bytes found
\* there (PostGarbage), a posting of any journal (what this, another or a
\* destroyed collector stored there), a fault while they are used
\* (PostCrash), or, the bytes being a null pointer, std::bad_typeid thrown by
\* typeid(*post) (PostBadTypeid): nothing is returned and the caller goes on.
PostGarbage == <<"garbage", 0, 0>>
PostCrash   == <<"crash", 0, 0>>
PostBadTypeid == <<"bad_typeid", 0, 0>>
PostIndexError == <<"IndexError", 0, 0>>

\* collector_wrapper::length.
length(collector) == Len(colls[collector].posts)

\* collector_wrapper::begin .. end: the postings an iteration yields.
begin_end(collector) ==
  [k \in 1..Len(colls[collector].posts) |-> colls[collector].posts[k]]

posts_getitem(collector, i) ==
  LET posts == colls[collector].posts
  IN IF 0 <= i /\ i < Len(posts)
       THEN {posts[i + 1]}
       ELSE UNION {Range(journal_posts(journal)) : journal \in Journals}
              \cup {PostGarbage, PostCrash, PostBadTypeid}

\* py_collect with the journal installed before the pending check.
Collect_InstallFirst ==
  \E journal \in Journals :
    /\ pc = "idle"
    /\ IF has_xdata(journal)
         THEN /\ last' = [NoOp EXCEPT !.op = "collect", !.j = journal,
                            !.exit = ConcurrentCollectionError,
                            !.live = (LiveOn(journal) # {}),
                            !.pending = TRUE, !.entry_slot = slot,
                            !.prev = PrevOn(journal)]
              /\ slot' = journal
              /\ UNCHANGED <<xdata, colls, pc, cur, deleted>>
         ELSE \E c \in CollIds :
              /\ colls[c].state = "free"
              /\ colls' = [colls EXCEPT ![c] = [state |-> "building",
                                                journal |-> journal,
                                                posts |-> <<>>,
                                                pushed |-> 0,
                                                direct |-> TRUE]]
              /\ cur' = [journal |-> journal, coll |-> c, save_journal |-> slot,
                         pos |-> 0, held |-> {}, fail |-> "none",
                         restored |-> 0]
              /\ slot' = journal
              /\ pc' = "compiling"
              /\ last' = [NoOp EXCEPT !.op = "collect", !.j = journal, !.c = c,
                            !.exit = "running",
                            !.live = (LiveOn(journal) # {}),
                            !.entry_slot = slot, !.prev = PrevOn(journal)]
              /\ UNCHANGED xdata
              /\ deleted' = reset(NULL, deleted)
    /\ UNCHANGED getvars

\* py_collect without the installation of the journal into the slot.
Collect_NoInstall ==
  \E journal \in Journals :
    /\ pc = "idle"
    /\ IF has_xdata(journal)
         THEN /\ last' = [NoOp EXCEPT !.op = "collect", !.j = journal,
                            !.exit = ConcurrentCollectionError,
                            !.live = (LiveOn(journal) # {}),
                            !.pending = TRUE, !.entry_slot = slot,
                            !.prev = PrevOn(journal)]
              /\ UNCHANGED <<slot, xdata, colls, pc, cur, deleted>>
         ELSE \E c \in CollIds :
              /\ colls[c].state = "free"
              /\ colls' = [colls EXCEPT ![c] = [state |-> "building",
                                                journal |-> journal,
                                                posts |-> <<>>,
                                                pushed |-> 0,
                                                direct |-> TRUE]]
              /\ cur' = [journal |-> journal, coll |-> c, save_journal |-> slot,
                         pos |-> 0, held |-> {}, fail |-> "none",
                         restored |-> 0]
              /\ slot' = slot
              /\ pc' = "compiling"
              /\ last' = [NoOp EXCEPT !.op = "collect", !.j = journal, !.c = c,
                            !.exit = "running",
                            !.live = (LiveOn(journal) # {}),
                            !.entry_slot = slot, !.prev = PrevOn(journal)]
              /\ UNCHANGED xdata
              /\ deleted' = reset(NULL, deleted)
    /\ UNCHANGED getvars

\* py_collect up to the slot swap: the pending check, the new
\* collector_wrapper, save_journal and the installation of the journal.
Collect ==
  \E journal \in Journals :
    /\ pc = "idle"
    /\ IF has_xdata(journal)
         THEN /\ last' = [NoOp EXCEPT !.op = "collect", !.j = journal,
                            !.exit = ConcurrentCollectionError,
                            !.live = (LiveOn(journal) # {}),
                            !.pending = TRUE, !.entry_slot = slot,
                            !.prev = PrevOn(journal)]
              /\ UNCHANGED <<slot, xdata, colls, pc, cur, deleted>>
         ELSE \E c \in CollIds :
              /\ colls[c].state = "free"
              /\ colls' = [colls EXCEPT ![c] = [state |-> "building",
                                                journal |-> journal,
                                                posts |-> <<>>,
                                                pushed |-> 0,
                                                direct |-> TRUE]]
              /\ cur' = [journal |-> journal, coll |-> c, save_journal |-> slot,
                         pos |-> 0, held |-> {}, fail |-> "none",
                         restored |-> 0]
              /\ slot' = journal
              /\ pc' = "compiling"
              /\ last' = [NoOp EXCEPT !.op = "collect", !.j = journal, !.c = c,
                            !.exit = "running",
                            !.live = (LiveOn(journal) # {}),
                            !.entry_slot = slot, !.prev = PrevOn(journal)]
              /\ UNCHANGED xdata
              /\ deleted' = reset(NULL, deleted)
    /\ UNCHANGED getvars

\* process_arguments, normalize_options, parse_query_args and
\* chain_post_handlers: the query compiles, or one of them throws.
Compile ==
  /\ pc = "compiling"
  /\ \/ /\ pc' = "walking"
        /\ cur' = cur
     \/ /\ pc' = "catch"
        /\ cur' = [cur EXCEPT !.fail = "compile"]
  /\ UNCHANGED <<slot, xdata, colls, last, deleted>>
  /\ UNCHANGED getvars

\* The handler chain and the terminal handler.  What the handlers between
\* the walker and the collector do is decided by the query: a handler may
\* annotate, drop a posting, hand it on as it arrives (a filter), or hold it
\* back and hand it on later in an order of its own (sort, group), at the
\* latest when the chain is flushed at the end of the walk.

\* The orders in which the postings of S can be handed on.
Perms(S) ==
  {e \in [1..Cardinality(S) -> S] :
     \A a, b \in 1..Cardinality(S) : a # b => e[a] # e[b]}

\* One posting pushed into the head of a chain that holds held: emit is what
\* reaches the terminal handler, held what the chain holds afterwards.  The
\* posting pushed is dropped, held back or handed on.
handle(held, post) ==
  UNION {{[emit |-> e, held |-> h] : e \in Perms(R),
                                     h \in {(held \cup {post}) \ R, held \ R}}
         : R \in SUBSET (held \cup {post})}

\* The flush at the end of the walk: the chain hands on postings it held,
\* and holds nothing afterwards.
flush(held) ==
  UNION {{[emit |-> e, held |-> {}] : e \in Perms(R)} : R \in SUBSET held}

\* A terminal handler that stores each posting in front of the earlier ones.
accept_Front(posts, post) == <<post>> \o posts

\* collect_posts::operator(): posts.push_back(&post).
accept(posts, post) == Append(posts, post)

\* The postings of emit reach the terminal handler one after the other.
RECURSIVE AcceptEach(_, _)
AcceptEach(posts, emit) ==
  IF emit = <<>> THEN posts
  ELSE AcceptEach(accept(posts, Head(emit)), Tail(emit))

\* pass_down_posts, one posting of the walker over coll->journal pushed into
\* coll->chain, which ends in coll->posts_collector: the chain may annotate
\* the posting, hands postings to the collector, and may throw.
WalkPost ==
  /\ pc = "walking"
  /\ cur.pos < Len(journal_posts(cur.journal))
  /\ LET post == journal_posts(cur.journal)[cur.pos + 1]
     IN \E annotate \in BOOLEAN, throws \in BOOLEAN :
          \E o \in handle(cur.held, post) :
            /\ xdata' = IF annotate
                          THEN [xdata EXCEPT ![cur.journal] = @ \cup {post}]
                          ELSE xdata
            /\ colls' = [colls EXCEPT
                           ![cur.coll].posts = AcceptEach(@, o.emit),
                           ![cur.coll].pushed = @ + Len(o.emit),
                           ![cur.coll].direct = @ /\ (o.held = {})]
            /\ IF throws
                 THEN /\ pc' = "catch"
                      /\ cur' = [cur EXCEPT !.fail = "walk", !.held = o.held]
                 ELSE /\ pc' = "walking"
                      /\ cur' = [cur EXCEPT !.pos = @ + 1, !.held = o.held]
  /\ UNCHANGED <<slot, last, deleted>>
  /\ UNCHANGED getvars

\* An end of the walk that returns without the restoration.
WalkDone_SkipRestore ==
  /\ pc = "walking"
  /\ cur.pos = Len(journal_posts(cur.journal))
  /\ \E o \in flush(cur.held), throws \in BOOLEAN :
       \E A \in {{}} \cup {{q} : q \in Range(journal_posts(cur.journal))} :
         /\ xdata' = [xdata EXCEPT ![cur.journal] = @ \cup A]
         /\ colls' = [colls EXCEPT
                        ![cur.coll].posts = AcceptEach(@, o.emit),
                        ![cur.coll].pushed = @ + Len(o.emit)]
         /\ IF throws
              THEN /\ pc' = "catch"
                   /\ cur' = [cur EXCEPT !.fail = "walk", !.held = o.held]
              ELSE /\ pc' = "result"
                   /\ cur' = [cur EXCEPT !.held = o.held]
  /\ UNCHANGED <<slot, last, deleted>>
  /\ UNCHANGED getvars

\* pass_down_posts: the walker is at its end and the chain is flushed; the
\* handlers hand on what they held, may annotate an item and may throw.
\* Then the body of the try is done.
WalkDone ==
  /\ pc = "walking"
  /\ cur.pos = Len(journal_posts(cur.journal))
  /\ \E o \in flush(cur.held), throws \in BOOLEAN :
       \E A \in {{}} \cup {{q} : q \in Range(journal_posts(cur.journal))} :
         /\ xdata' = [xdata EXCEPT ![cur.journal] = @ \cup A]
         /\ colls' = [colls EXCEPT
                        ![cur.coll].posts = AcceptEach(@, o.emit),
                        ![cur.coll].pushed = @ + Len(o.emit)]
         /\ IF throws
              THEN /\ pc' = "catch"
                   /\ cur' = [cur EXCEPT !.fail = "walk", !.held = o.held]
              ELSE /\ pc' = "restoring"
                   /\ cur' = [cur EXCEPT !.held = o.held]
  /\ UNCHANGED <<slot, last, deleted>>
  /\ UNCHANGED getvars

\* A restoration that resets the slot without releasing it first: the slot
\* deletes the journal it holds.
Restore_NoRelease ==
  /\ pc = "restoring"
  /\ slot' = cur.save_journal
  /\ cur' = [cur EXCEPT !.save_journal = NULL, !.restored = @ + 1]
  /\ pc' = "result"
  /\ UNCHANGED <<xdata, colls, last>>
  /\ deleted' = reset(slot, deleted)
  /\ UNCHANGED getvars

\* The normal path: journal.release() empties the slot, and
\* journal.reset(save_journal.release()) puts the saved journal back.
Restore ==
  /\ pc = "restoring"
  /\ slot' = cur.save_journal
  /\ cur' = [cur EXCEPT !.save_journal = NULL, !.restored = @ + 1]
  /\ pc' = "result"
  /\ deleted' = reset(NULL, deleted)
  /\ UNCHANGED <<xdata, colls, last>>
  /\ UNCHANGED getvars

\* return coll.
Return ==
  /\ pc = "result"
  /\ colls' = [colls EXCEPT ![cur.coll].state = "live"]
  /\ last' = [last EXCEPT !.exit = "ok"]
  /\ pc' = "idle"
  /\ cur' = NoCall
  /\ deleted' = reset(cur.save_journal, deleted)
  /\ UNCHANGED <<slot, xdata>>
  /\ UNCHANGED getvars

\* A catch block that rethrows without putting the saved journal back.
Catch_NoRestore ==
  /\ pc = "catch"
  /\ pc' = "error"
  /\ UNCHANGED <<slot, cur, xdata, colls, last, deleted>>
  /\ UNCHANGED getvars

\* catch (...): journal.release(); journal.reset(save_journal.release()).
Catch ==
  /\ pc = "catch"
  /\ slot' = cur.save_journal
  /\ cur' = [cur EXCEPT !.save_journal = NULL, !.restored = @ + 1]
  /\ pc' = "error"
  /\ deleted' = reset(NULL, deleted)
  /\ UNCHANGED <<xdata, colls, last>>
  /\ UNCHANGED getvars

\* An unwinding in which the collector_wrapper outlives the failed call.
Propagate_Leak ==
  /\ pc = "error"
  /\ last' = [last EXCEPT !.exit = cur.fail,
                            !.pending = has_xdata(cur.journal)]
  /\ pc' = "idle"
  /\ cur' = NoCall
  /\ deleted' = reset(cur.save_journal, deleted)
  /\ UNCHANGED <<slot, xdata, colls>>
  /\ UNCHANGED getvars

\* throw: the exception leaves py_collect, and unwinding drops coll, the
\* only reference to the collector_wrapper, whose destructor runs.
Propagate ==
  /\ pc = "error"
  /\ Destructor(cur.coll)
  /\ last' = [last EXCEPT !.exit = cur.fail,
                            !.pending = has_xdata(cur.journal)]
  /\ pc' = "idle"
  /\ cur' = NoCall
  /\ deleted' = reset(cur.save_journal, deleted)
  /\ UNCHANGED slot
  /\ UNCHANGED getvars

\* The caller drops the last reference to a collector it was given.
DestroyCollector ==
  \E c \in CollIds :
    /\ pc = "idle"
    /\ colls[c].state = "live"
    /\ Destructor(c)
    /\ last' = [NoOp EXCEPT !.op = "destroy", !.j = colls[c].journal, !.c = c,
                  !.pending = has_xdata(colls[c].journal)]
    /\ UNCHANGED <<slot, pc, cur, deleted>>
    /\ UNCHANGED getvars

\* Journal.clear_xdata, called by the caller.
ClearXdata ==
  \E journal \in Journals :
    /\ pc = "idle"
    /\ xdata' = clear_xdata(xdata, journal)
    /\ last' = [NoOp EXCEPT !.op = "clear_xdata", !.j = journal,
                  !.pending = has_xdata(journal)]
    /\ UNCHANGED <<slot, colls, pc, cur, deleted>>
    /\ UNCHANGED getvars

\* Journal.has_xdata, called by the caller.
HasXdata ==
  \E journal \in Journals :
    /\ pc = "idle"
    /\ last' = [NoOp EXCEPT !.op = "has_xdata", !.j = journal,
                  !.pending = has_xdata(journal)]
    /\ UNCHANGED <<slot, xdata, colls, pc, cur, deleted>>
    /\ UNCHANGED getvars

\* PostCollectorWrapper.__getitem__.
PostsGetitem ==
  \E c \in CollIds, i \in Indices :
    /\ pc = "idle"
    /\ colls[c].state = "live"
    /\ \E r \in posts_getitem(c, i) :
         /\ last' = [NoOp EXCEPT !.op = "getitem", !.j = colls[c].journal,
                       !.c = c, !.i = i, !.ret = r]
         /\ pc' = IF r = PostCrash THEN "crashed" ELSE "idle"
    /\ UNCHANGED <<slot, xdata, colls, cur, deleted>>
    /\ UNCHANGED getvars

Init ==
  /\ InitGet
  /\ slot \in Journals \cup {NULL}
  /\ xdata = [j \in Journals |-> {}]
  /\ colls = [c \in CollIds |-> NoColl]
  /\ pc = "idle"
  /\ cur = NoCall
  /\ last = NoOp
  /\ deleted = {}

NextGet == XactsGetitem \/ AccountsGetitem

NextMutate == XactsGetitem \/ RemoveXact \/ AddXact \/ Read

NextMutateAccounts == AccountsGetitem \/ RemoveAccount \/ AddAccount \/ Read

NextCollect ==
  \/ Collect \/ Compile \/ WalkPost \/ WalkDone \/ Restore \/ Return
  \/ Catch \/ Propagate \/ DestroyCollector \/ ClearXdata \/ HasXdata

\* The step leaves the handler chain holding no posting back: the query
\* names filters only, no handler that sorts or groups.
Filtering == cur'.held = {}

\* The step leaves at most one collector in existence: the caller destroys
\* the collector it holds before it collects again.
OneCollector == Cardinality({c \in CollIds : colls'[c].state # "free"}) <= 1

\* The collection interface called with queries that filter.
NextFilter ==
  \/ Collect \/ Compile \/ (WalkPost /\ Filtering) \/ WalkDone \/ Restore
  \/ Return \/ Catch \/ Propagate \/ DestroyCollector \/ ClearXdata \/ HasXdata

\* The collection interface called with every query, one collector at a time.
NextChain ==
  \/ (Collect /\ OneCollector) \/ Compile \/ WalkPost \/ WalkDone \/ Restore
  \/ Return \/ Catch \/ Propagate \/ DestroyCollector \/ ClearXdata \/ HasXdata

NextPosts == NextChain \/ PostsGetitem

Next ==
  NextGet \/ NextCollect \/ PostsGetitem \/ NextMutate \/ NextMutateAccounts

\* The collection runs start from journals of every length up to MaxLen for
\* J1 and up to one transaction for J2, and leave the accounts aside.
InitCollect ==
  /\ Init
  /\ Len(xacts["J2"]) <= 1
  /\ accounts = [a \in Accounts |-> <<>>]

\* The accessor runs never touch the slot: they start with it empty, from
\* journals and a first account of every length up to MaxLen and a second
\* account of at most one child.
InitAccess ==
  /\ Init
  /\ slot = NULL
  /\ Len(accounts["A2"]) <= 1

\* What the runs that change the containers share at their start.
InitRest ==
  /\ xcache = [last_index |-> 0, last_journal |-> NULL, elem |-> Singular]
  /\ acache = [last_index |-> 0, last_account |-> NULL, elem |-> Singular]
  /\ g = NoGet
  /\ slot = NULL
  /\ xdata = [j \in Journals |-> {}]
  /\ colls = [c \in CollIds |-> NoColl]
  /\ pc = "idle"
  /\ cur = NoCall
  /\ last = NoOp
  /\ deleted = {}

\* The runs that change a list between calls of xacts_getitem start from the
\* transactions of J1 in a list of every length up to XactsMax, J2 with at
\* most one, and every account already in its map.
InitMutate ==
  /\ \E n1 \in 0..XactsMax, n2 \in 0..1 :
       xacts = [j \in Journals |-> Filled(j, IF j = "J1" THEN n1 ELSE n2)]
  /\ accounts = [a \in Accounts |-> Filled(a, IF a = "A1" THEN MaxLen ELSE 1)]
  /\ InitRest

\* The runs that change a map between calls of accounts_getitem start from
\* maps of every size, and every transaction already in its list.
InitMutateAccounts ==
  /\ xacts = [j \in Journals |-> Filled(j, IF j = "J1" THEN XactsMax ELSE 1)]
  /\ \E n1 \in 0..MaxLen, n2 \in 0..1 :
       accounts = [a \in Accounts |-> Filled(a, IF a = "A1" THEN n1 ELSE n2)]
  /\ InitRest

Spec        == Init /\ [][Next]_vars
\* xacts_getitem on lists that add_xact, remove_xact and read change.
SpecMutate  == InitMutate /\ [][NextMutate]_vars
\* accounts_getitem on maps that add_account, find_account, remove_account
\* and read change.
SpecMutateAccounts == InitMutateAccounts /\ [][NextMutateAccounts]_vars
\* The indexed accessors alone.
SpecGet     == InitAccess /\ [][NextGet]_vars
\* collect with queries that filter, the destruction of collectors,
\* has_xdata and clear_xdata.
SpecCollect == InitCollect /\ [][NextFilter]_vars
\* A call of py_collect in progress runs on: statement follows statement.
CallStep ==
  Compile \/ WalkPost \/ WalkDone \/ Restore \/ Return \/ Catch \/ Propagate

\* The runs checked for termination start with no transaction in J2.
InitLive ==
  /\ InitCollect
  /\ xacts["J2"] = <<>>

SpecCollectLive ==
  InitLive /\ [][NextFilter]_vars /\ WF_vars(CallStep /\ Filtering)
\* collect with every query and indexing into the collectors, one collector
\* at a time.
SpecPosts   == InitCollect /\ [][NextPosts]_vars
\* collect with every query, also those whose handlers hold postings back,
\* one collector at a time.
SpecChain   == InitCollect /\ [][NextChain]_vars

\* ================================================================ claims
\* The container the last accessor call was made on.
Cont == IF g.fn = "xacts" THEN xacts[g.c]
        ELSE IF g.fn = "accounts" THEN accounts[g.c] ELSE <<>>

Finished == {"ok", "compile", "walk"}

\* C1: a collect call that got past the pending check leaves the active-ledger
\* slot as it found it, whether it returned a collector, failed while
\* compiling the query or failed while walking the postings.
C1_SlotRestored ==
  (last.op = "collect" /\ last.exit \in Finished) => slot = last.entry_slot

\* A walk failure of a collect made while another journal was the active one.
C1_Witness ==
  /\ last.op = "collect" /\ last.exit = "walk"
  /\ last.entry_slot \in Journals \ {last.j}
  /\ slot = last.entry_slot

\* C2: on unmodified containers, an accessor call with an index in
\* [0, length) returns the element at that position of a forward traversal,
\* whatever calls came before it.
C2_GetReturnsIth ==
  (g.fn # "none" /\ 0 <= g.i /\ g.i < Len(Cont)) => g.ret = Cont[g.i + 1]

\* C3: for 1 <= k <= length, an accessor call with index -k succeeds and
\* returns the element at position length - k.
C3_NegativeIndex ==
  (g.fn # "none" /\ g.i < 0 /\ -g.i <= Len(Cont))
    => g.ret = Cont[Len(Cont) + g.i + 1]

\* C4: an accessor call with |i| >= length fails with IndexError in every
\* state of the cache, and does not take the cached path.
C4_OutOfRangeFails ==
  (g.fn # "none" /\ (g.i >= Len(Cont) \/ -g.i >= Len(Cont)))
    => (g.ret = IndexError /\ g.path = "error")

\* C5: indexing a collector outside [0, length()) fails with IndexError, and
\* inside it returns the posting collected at that position.
C5_PostsBoundsChecked ==
  last.op = "getitem" =>
    IF 0 <= last.i /\ last.i < Len(colls[last.c].posts)
      THEN last.ret = colls[last.c].posts[last.i + 1]
      ELSE last.ret = PostIndexError

\* C6: a collect on a journal that has a collector returned and not yet
\* destroyed fails with ConcurrentCollectionError.
C6_SecondCollectRejected ==
  (last.op = "collect" /\ last.live) => last.exit = ConcurrentCollectionError

\* C7: once the collector of a collect has been destroyed, the next collect
\* on that journal is not rejected, whatever the first walk annotated; a
\* collect is rejected only while a collector of the journal is outstanding.
C7_SequentialCollectsSucceed ==
  /\ (last.op = "destroy" => ~has_xdata(last.j))
  /\ (last.op = "collect" /\ last.prev = "destroyed")
       => last.exit # ConcurrentCollectionError
  /\ (last.op = "collect" /\ last.exit = ConcurrentCollectionError) => last.live

\* A collect that returned a collector right after the collector of an
\* annotating walk over the same journal was destroyed.
C7_Witness ==
  last.op = "collect" /\ last.prev = "destroyed" /\ last.exit = "ok"

\* C8: no journal ever has two collectors returned and not yet destroyed.
C8_AtMostOneCollector ==
  \A journal \in Journals : Cardinality(LiveOn(journal)) <= 1

\* C9: destroying a returned collector turns has_xdata of its journal from
\* true to false and leaves the journal without annotations.
C9_DestroyFlipsPending ==
  last.op = "destroy" =>
    (last.pending /\ ~has_xdata(last.j) /\ xdata[last.j] = {})

\* C10: a collect that fails while compiling or walking returns no
\* collector and leaves the journal released: has_xdata is false, the
\* annotations of the walk are gone, and the next collect on the journal is
\* not rejected.
C10_FailureReleases ==
  /\ (last.op = "collect" /\ last.exit \in {"compile", "walk"})
       => (/\ ~has_xdata(last.j)
           /\ xdata[last.j] = {}
           /\ colls[last.c].state = "free")
  /\ (last.op = "collect" /\ last.prev = "failed")
       => last.exit # ConcurrentCollectionError

\* A walk that annotated postings and then failed.
C10_Witness ==
  /\ last.op = "collect" /\ last.exit = "walk"
  /\ last.pending /\ ~has_xdata(last.j)

\* C11: a collect rejected with ConcurrentCollectionError changes nothing:
\* the slot is not written, has_xdata of the journal stays true, no
\* collector is created, and the collectors and annotations are as before.
C11_RejectedChangesNothing ==
  [][(last'.op = "collect" /\ last'.exit = ConcurrentCollectionError)
       => (/\ slot' = slot
           /\ xdata' = xdata /\ xdata'[last'.j] # {}
           /\ colls' = colls
           /\ pc' = pc /\ cur' = cur)]_vars

\* A rejected collect on a journal whose outstanding collector holds
\* postings, made while another journal is the active one.
C11_Witness ==
  /\ last.op = "collect" /\ last.exit = ConcurrentCollectionError
  /\ slot \in Journals \ {last.j}
  /\ \E c \in LiveOn(last.j) : colls[c].posts # <<>>

\* The position of posting p in the canonical traversal of the journal.
PosIn(ps, p) == CHOOSE k \in 1..Len(ps) : ps[k] = p

PhaseSteps ==
  {<<"idle", "idle">>, <<"idle", "compiling">>,
   <<"compiling", "walking">>, <<"compiling", "catch">>,
   <<"walking", "walking">>, <<"walking", "restoring">>, <<"walking", "catch">>,
   <<"restoring", "result">>, <<"catch", "error">>,
   <<"result", "idle">>, <<"error", "idle">>}

\* C13: a collect call goes from the installation through compiling and
\* walking to the restoration and then to its result or its error: it
\* restores the slot exactly once, before it returns or propagates, whether
\* the body completed or failed, and it terminates.
C13_PhasesAndTermination ==
  /\ [][(<<pc, pc'>>) \in PhaseSteps]_vars
  /\ [](pc \in {"compiling", "walking", "restoring", "catch"} => cur.restored = 0)
  /\ [](pc \in {"result", "error"}
          => (cur.restored = 1 /\ slot = last.entry_slot))
  /\ [](pc = "result" => cur.fail = "none")
  /\ [](pc = "error" => cur.fail \in {"compile", "walk"})
  /\ ((pc # "idle") ~> (pc = "idle"))

\* A call whose walk failed after some postings, restored and about to
\* propagate the failure.
C13_Witness ==
  /\ pc = "error" /\ cur.fail = "walk" /\ cur.pos >= 1
  /\ cur.restored = 1 /\ slot = last.entry_slot

\* The states of a collect call from the installation to the return.
Installed == {"compiling", "walking", "restoring", "result"}

\* C14: from the installation of a collect that is not rejected until the
\* collector it returns is destroyed, has_xdata of the journal is true,
\* whatever the walk annotated or matched.
C14_PendingWhileOutstanding ==
  \A journal \in Journals :
    ((pc \in Installed /\ cur.journal = journal) \/ LiveOn(journal) # {})
      => has_xdata(journal)

\* C15: while the body of a collect runs (compiling and walking), the slot
\* holds the journal collected from and save_journal holds what the slot
\* held when the call began.
C15_BodyRunsInstalled ==
  pc \in {"compiling", "walking"}
    => (slot = cur.journal /\ cur.save_journal = last.entry_slot)

\* A walk past its first posting, begun while another journal was active.
C15_Witness ==
  /\ pc = "walking" /\ cur.pos >= 1
  /\ last.entry_slot \in Journals \ {cur.journal}
  /\ slot = cur.journal /\ cur.save_journal = last.entry_slot

\* C16: no step of the query compiler or of the walk over the postings
\* changes the slot or the value of has_xdata of any journal.
C16_BodyLeavesSlotAndPending ==
  [][(pc \in {"compiling", "walking"})
       => ((slot' = slot) /\
           (\A journal \in Journals :
              (xdata'[journal] # {}) = (xdata[journal] # {})))]_vars

\* C20: no exit path of collect destroys a journal: none is ever deleted,
\* and when the call returns or rethrows the slot holds the journal that was
\* active before and save_journal holds nothing.
C20_NoLedgerDestroyed ==
  /\ deleted = {}
  /\ pc \in {"result", "error"}
       => (slot = last.entry_slot /\ cur.save_journal = NULL)
  /\ (pc = "idle" /\ last.op = "collect" /\ last.exit \in Finished)
       => slot = last.entry_slot

\* A collect from the journal that was already active has returned.
C20_Witness ==
  /\ pc = "idle" /\ last.op = "collect" /\ last.exit = "ok"
  /\ last.entry_slot = last.j /\ slot = last.j
  /\ deleted = {}

\* C17: a call that completes a run get(c,0), get(c,1), ... on one container
\* returns the element at its index, and takes the fast path unless it is the
\* first of the run; the fast path is taken only by a call that names the
\* cached container and last_index + 1, and a walk leaves the cache at the
\* container, index and element of the call.
C17_AscendingRun ==
  /\ g.run >= 1 => g.ret = Cont[g.i + 1]
  /\ g.run >= 2 => g.path = "fast"
  /\ g.path = "fast" => g.adj
  /\ (g.fn = "xacts" /\ g.path = "walk")
       => (xcache.last_journal = g.c /\ xcache.last_index = g.i
           /\ xcache.elem = g.ret)
  /\ (g.fn = "accounts" /\ g.path = "walk")
       => (acache.last_account = g.c /\ acache.last_index = g.i
           /\ acache.elem = g.ret)

\* C18: a call that names the cached journal and last_index + 1, in range,
\* takes the fast path and raises no error, however the lists were changed
\* since the call before; and after get(c, i) and the removal of one
\* transaction in front of position i, get(c, i + 1) returns the transaction
\* now at position i, not the one at position i + 1.
C18_FastPathIgnoresMutation ==
  /\ (g.fn = "xacts" /\ g.mut # "none" /\ g.adj /\ labs(g.i) < Len(xacts[g.c]))
       => (g.path = "fast" /\ g.ret # IndexError /\ xcache.last_index = g.i)
  /\ (g.fn = "xacts" /\ g.mut = "before" /\ g.adj /\ labs(g.i) < Len(xacts[g.c]))
       => (~g.ub /\ g.ret = xacts[g.c][g.i] /\ g.ret # xacts[g.c][g.i + 1])

\* get(c, i), the removal of one transaction in front of position i, then
\* get(c, i + 1): the fast path returns, through a valid iterator, an element
\* of the list that is not the one at position i + 1.
C18_Witness ==
  /\ g.fn = "xacts" /\ g.mut = "before" /\ g.adj /\ g.i >= 1
  /\ g.path = "fast" /\ ~g.ub
  /\ g.ret \in Range(xacts[g.c])
  /\ g.ret # xacts[g.c][g.i + 1]

\* C19: on unmodified containers the statics of each accessor, once set,
\* designate the element that last_index resolves to, and no call steps or
\* reads through an iterator that designates no element.
C19_CachedIteratorValid ==
  /\ xcache.last_journal # NULL
       => CacheSound(xcache, xacts[xcache.last_journal])
  /\ acache.last_account # NULL
       => CacheSound(acache, accounts[acache.last_account])
  /\ ~g.ub
====
